---- MODULE Spec2Model ----
(***************************************************************************)
(* A model of reasoning_gym: the dataset registry (factory.py) and three   *)
(* procedural generators (letter counting, colour cube rotation and the    *)
(* countdown number game), each a virtual sequence of samples addressed by *)
(* an index and a base seed.                                               *)
(***************************************************************************)
EXTENDS Integers, Sequences, FiniteSets, TLC

VARIABLES
    DATASETS,       \* factory._DATASETS: name -> <<dataset_cls, config_cls>>, or NoEntry
    imported,       \* TRUE once reasoning_gym.games.countdown has been loaded
    firstReg,       \* history: the pair of each name's first successful registration
    call,           \* the last factory call and how it ended
    hashseed,       \* the process's string-hash seed (PYTHONHASHSEED, random when unset)
    ds,             \* the dataset object under observation, or NoDataset
    config,         \* the Config object the caller has built, or NoConfig
    last,           \* the last dataset operation and the exception it raised
    observed,       \* index -> the result of the most recent access to that index
    handles,        \* handle -> "none", "active" (returned by iter) or "ended"
    emitted,        \* handle -> the indices whose samples next(handle) has returned
    yielded,        \* the samples returned by __next__ since the last __iter__
    nextCalls,      \* number of __next__ calls since the last __iter__
    stops,          \* number of those that raised StopIteration
    peer,           \* a second process: its hash seed, dataset and results
    gen,            \* a countdown request in progress: its stream and call depth
    cube            \* a Cube object, the rotation last applied and the colours before it

vars == <<DATASETS, imported, firstReg, call, hashseed, config, ds, last, observed,
          handles, emitted, yielded, nextCalls, stops, peer, gen, cube>>

(***************************************************************************)
(* Bounds of the model.                                                    *)
(***************************************************************************)
MaxSize == 2        \* largest config.size
MaxSeed == 2        \* base seeds 0..MaxSeed
MaxExtraNext == 2   \* __next__ calls allowed past the end of an iteration

Abs(n) == IF n < 0 THEN -n ELSE n

(***************************************************************************)
(* random.Random.  The generator is a deterministic stream fixed by its    *)
(* seed; the Mersenne Twister is represented by a Lehmer generator.  An    *)
(* int seed is used by absolute value, as CPython does.  Each draw returns *)
(* the value and the advanced stream.                                      *)
(***************************************************************************)
RngStep(s) == (s * 219) % 32749

Random(a) == RngStep(RngStep((Abs(a) % 32748) + 1))

RandBelow(rng, n) == [val |-> (RngStep(rng) \div 7) % n, rng |-> RngStep(rng)]

\* rng.randint(a, b), a <= b (randint raises ValueError on an empty range)
RandInt(rng, a, b) ==
    [val |-> a + RandBelow(rng, b - a + 1).val, rng |-> RngStep(rng)]

\* rng.choice(seq), seq not empty
Choice(rng, seq) ==
    [val |-> seq[1 + RandBelow(rng, Len(seq)).val], rng |-> RngStep(rng)]

Swap(seq, i, j) == [seq EXCEPT ![i] = seq[j], ![j] = seq[i]]

\* rng.shuffle(x): for i in reversed(range(1, len(x))): j = randbelow(i + 1); swap.
\* i is the 1-based position of the element being placed.
RECURSIVE ShuffleFrom(_, _, _)
ShuffleFrom(rng, seq, i) ==
    IF i <= 1 THEN [val |-> seq, rng |-> rng]
    ELSE LET d == RandBelow(rng, i)
         IN ShuffleFrom(d.rng, Swap(seq, i, d.val + 1), i - 1)

Shuffle(rng, seq) == ShuffleFrom(rng, seq, Len(seq))

(***************************************************************************)
(* Text.  A string is a sequence of one-character strings.                 *)
(***************************************************************************)
Alphabet == <<"0", "1", "2", "3", "4", "5", "6", "7", "8", "9",
              "a", "e", "h", "i", "n", "r", "t", "y", "I", "T", "Y", " ">>

CharIndex(c) == CHOOSE i \in 1..Len(Alphabet) : Alphabet[i] = c

\* str.lower() on one character
LowerChar(c) ==
    CASE c = "I" -> "i"
      [] c = "T" -> "t"
      [] c = "Y" -> "y"
      [] OTHER -> c

\* word.lower() as it would be if it kept the case
LowerKeepsCase(word) == word

Lower(word) == [i \in 1..Len(word) |-> LowerChar(word[i])]

RECURSIVE Concat(_)
Concat(seqs) == IF seqs = <<>> THEN <<>> ELSE Head(seqs) \o Concat(Tail(seqs))

\* " ".join(span)
RECURSIVE JoinSpace(_)
JoinSpace(span) ==
    IF span = <<>> THEN <<>>
    ELSE IF Len(span) = 1 THEN span[1]
    ELSE span[1] \o <<" ">> \o JoinSpace(Tail(span))

\* word.count(letter)
CountChar(word, c) == Cardinality({i \in 1..Len(word) : word[i] = c})

RECURSIVE SumSeq(_)
SumSeq(s) == IF s = <<>> THEN 0 ELSE Head(s) + SumSeq(Tail(s))

Digit(d) == Alphabet[d + 1]

\* str(n)
RECURSIVE Str(_)
Str(n) ==
    IF n < 0 THEN <<"-">> \o Str(-n)
    ELSE IF n < 10 THEN <<Digit(n)>>
    ELSE Str(n \div 10) \o <<Digit(n % 10)>>

\* list(a_set_of_str): the iteration order of a set of strings follows the
\* strings' hashes, which the process's hash seed decides.
RECURSIVE SortedList(_)
SortedList(S) ==
    IF S = {} THEN <<>>
    ELSE LET c == CHOOSE x \in S : \A y \in S : CharIndex(x) <= CharIndex(y)
         IN <<c>> \o SortedList(S \ {c})

Reverse(seq) == [i \in 1..Len(seq) |-> seq[Len(seq) + 1 - i]]

ListOfSet(hs, S) == IF hs = 0 THEN SortedList(S) ELSE Reverse(SortedList(S))

(***************************************************************************)
(* Values shared by the generators.  An Optional[int] is <<>> (None) or    *)
(* <<n>>.  The outcome of an operation is a record whose exc field names   *)
(* the exception raised, "none" when it returned.                          *)
(***************************************************************************)
None == <<>>
Some(n) == <<n>>

Returned(sample) == [exc |-> "none", sample |-> sample]
Raised(e) == [exc |-> e]
NotAccessed == [exc |-> "unset"]

(***************************************************************************)
(* algorithmic/letter_counting.py                                          *)
(***************************************************************************)
\* self.words: the tokens of the corpus in_the_year_2889.txt, in order
Words == << <<"I", "n">>, <<"t", "h", "e">>, <<"Y", "e", "a", "r">>,
            <<"2", "8", "8", "9">> >>

LetterCountingConfig(min_words, max_words, seed, size) ==
    [cls |-> "LetterCountingConfig", min_words |-> min_words,
     max_words |-> max_words, seed |-> seed, size |-> size]

\* LetterCountingConfig.validate: TRUE when no assertion fails
LetterCountingValidateNoOrder(cfg) == cfg.min_words > 0

LetterCountingValidate(cfg) ==
    /\ cfg.min_words > 0
    /\ cfg.max_words >= cfg.min_words

\* LetterCountingDataset.__init__ after validate(); drawn is the value of
\* Random().randint(0, 2**32), used when config.seed is None
LetterCountingInit(cfg, drawn) ==
    [cls |-> "LetterCountingDataset", config |-> cfg,
     seed |-> IF cfg.seed # None THEN cfg.seed[1] ELSE drawn,
     words |-> Words, current_idx |-> None]

\* LetterCountingDataset.__len__
LetterCountingLen(self) == self.config.size

\* the seed of the random stream __getitem__ creates
StreamSeedFromCursor(self, idx) ==
    self.seed + (IF self.current_idx = None THEN 0 ELSE self.current_idx[1])

StreamSeed(self, idx) == self.seed + idx

\* LetterCountingDataset.__getitem__; hs is the process's hash seed
LetterCountingGetItem(self, idx, hs) ==
    LET cfg == self.config
        rng == Random(StreamSeed(self, idx))
    IN  IF cfg.min_words > cfg.max_words THEN Raised("ValueError")
        ELSE
        LET d1 == RandInt(rng, cfg.min_words, cfg.max_words)
            span_length == d1.val
        IN  IF Len(self.words) - span_length < 0 THEN Raised("ValueError")
            ELSE
            LET d2 == RandInt(d1.rng, 0, Len(self.words) - span_length)
                start_idx == d2.val
                span == SubSeq(self.words, start_idx + 1, start_idx + span_length)
                joined == Lower(Concat(span))
                letters0 == {joined[i] : i \in 1..Len(joined)}
                letters == IF letters0 = {} THEN {"a"} ELSE letters0
                d3 == Choice(d2.rng, ListOfSet(hs, letters))
                target_letter == d3.val
                count == SumSeq([w \in 1..Len(span) |->
                                    CountChar(Lower(span[w]), target_letter)])
            IN  Returned(
                  [question |-> <<"How many times does the letter", target_letter,
                                  "appear in the text:", JoinSpace(span)>>,
                   answer |-> Str(count),
                   metadata |-> [span_length |-> span_length,
                                 target_letter |-> target_letter,
                                 span |-> span]])

\* the test of LetterCountingDataset.__next__ that ends the iteration
ExhaustedOffByOne(current_idx, size) == current_idx > size

Exhausted(current_idx, size) == current_idx >= size

(***************************************************************************)
(* cognition/color_cube_rotation.py                                        *)
(***************************************************************************)
Colors == <<"red", "green", "blue", "yellow", "white", "orange">>
Sides == <<"top", "right", "front", "left", "back", "bottom">>
SideSet == {Sides[i] : i \in 1..Len(Sides)}

\* rotations as they would be with one assignment wrong
rotate_front_to_top_reversed(old) ==
    [old EXCEPT !["top"] = old["back"], !["front"] = old["top"],
                !["bottom"] = old["front"], !["back"] = old["bottom"]]

rotate_left_to_top_as_right(old) ==
    [old EXCEPT !["top"] = old["right"], !["right"] = old["bottom"],
                !["bottom"] = old["left"], !["left"] = old["top"]]

rotate_bottom_to_top_no_back(old) ==
    [old EXCEPT !["top"] = old["bottom"], !["bottom"] = old["top"],
                !["front"] = old["back"]]

rotate_front_to_top(old) ==
    [old EXCEPT !["top"] = old["front"], !["front"] = old["bottom"],
                !["bottom"] = old["back"], !["back"] = old["top"]]

rotate_right_to_top(old) ==
    [old EXCEPT !["top"] = old["right"], !["right"] = old["bottom"],
                !["bottom"] = old["left"], !["left"] = old["top"]]

rotate_back_to_top(old) ==
    [old EXCEPT !["top"] = old["back"], !["back"] = old["bottom"],
                !["bottom"] = old["front"], !["front"] = old["top"]]

rotate_left_to_top(old) ==
    [old EXCEPT !["top"] = old["left"], !["left"] = old["bottom"],
                !["bottom"] = old["right"], !["right"] = old["top"]]

rotate_bottom_to_top(old) ==
    [old EXCEPT !["top"] = old["bottom"], !["bottom"] = old["top"],
                !["front"] = old["back"], !["back"] = old["front"]]

ColorCubeRotationConfig(min_rotations, max_rotations, seed, size) ==
    [cls |-> "ColorCubeRotationConfig", min_rotations |-> min_rotations,
     max_rotations |-> max_rotations, seed |-> seed, size |-> size]

ColorCubeRotationValidate(cfg) ==
    /\ cfg.min_rotations > 0
    /\ cfg.max_rotations >= cfg.min_rotations

\* ProceduralDataset.__init__(seed=..., size=...): the base class resolves
\* the seed and keeps the size
ProceduralDatasetInit(self, seed, size, drawn) ==
    [self EXCEPT !.seed = IF seed # None THEN seed[1] ELSE drawn,
                 !.size = size]

\* ColorCubeRotationDataset.__init__ after validate()
ColorCubeRotationInit(cfg, drawn) ==
    ProceduralDatasetInit(
        [cls |-> "ColorCubeRotationDataset", config |-> cfg, seed |-> 0,
         size |-> 0, current_idx |-> None],
        cfg.seed, cfg.size, drawn)

\* ColorCubeRotationDataset._generate_cube
GenerateCube(rng) ==
    LET sh == Shuffle(rng, Colors)
    IN  [val |-> [side \in SideSet |->
                     sh.val[CHOOSE i \in 1..Len(Sides) : Sides[i] = side]],
         rng |-> sh.rng]

\* ColorCubeRotationDataset._rotate_to_top
RotateToTop(colors, from_side) ==
    CASE from_side = "front" -> rotate_front_to_top(colors)
      [] from_side = "right" -> rotate_right_to_top(colors)
      [] from_side = "back" -> rotate_back_to_top(colors)
      [] from_side = "left" -> rotate_left_to_top(colors)
      [] from_side = "bottom" -> rotate_bottom_to_top(colors)
      [] OTHER -> colors

\* the loop as it would be without the test for Side.TOP
RECURSIVE RotationLoopRecordsTop(_, _, _, _)
RotationLoopRecordsTop(rng, colors, rotations, n) ==
    IF n = 0 THEN [rng |-> rng, colors |-> colors, rotations |-> rotations]
    ELSE LET d == Choice(rng, Sides)
         IN  RotationLoopRecordsTop(d.rng, colors, Append(rotations, d.val), n - 1)

\* the loop "for _ in range(num_rotations)" of __getitem__, n rounds left
RECURSIVE RotationLoop(_, _, _, _)
RotationLoop(rng, colors, rotations, n) ==
    IF n = 0 THEN [rng |-> rng, colors |-> colors, rotations |-> rotations]
    ELSE LET d == Choice(rng, Sides)
             from_side == d.val
         IN  IF from_side # "top"
             THEN RotationLoop(d.rng, RotateToTop(colors, from_side),
                               Append(rotations, from_side), n - 1)
             ELSE RotationLoop(d.rng, colors, rotations, n - 1)

\* ColorCubeRotationDataset._generate_story
GenerateStory(initial_state, rotations, target_side) ==
    <<"A cube has:">>
    \o [i \in 1..Len(Sides) |-> <<"- a", initial_state[Sides[i]], Sides[i], "side">>]
    \o [i \in 1..Len(rotations) |->
          <<"The cube is rotated so that the side which was before at the",
            rotations[i], "is now at the top.">>]
    \o << <<"What is now the color of the", target_side, "side of the cube?">> >>

\* ColorCubeRotationDataset.__getitem__
ColorCubeRotationGetItem(self, idx) ==
    LET cfg == self.config
        rng == Random(StreamSeed(self, idx))
        g == GenerateCube(rng)
        initial_state == g.val
    IN  IF cfg.min_rotations > cfg.max_rotations THEN Raised("ValueError")
        ELSE
        LET d1 == RandInt(g.rng, cfg.min_rotations, cfg.max_rotations)
            num_rotations == d1.val
            loop == RotationLoop(d1.rng, initial_state, <<>>, num_rotations)
            d2 == Choice(loop.rng, Sides)
            target_side == d2.val
        IN  Returned(
              [question |-> GenerateStory(initial_state, loop.rotations, target_side),
               answer |-> loop.colors[target_side],
               metadata |-> [initial_state |-> initial_state,
                             rotations |-> loop.rotations,
                             target_side |-> target_side,
                             num_rotations |-> num_rotations]])

(***************************************************************************)
(* games/countdown.py                                                      *)
(***************************************************************************)
MaxAttempts == 3    \* depth at which the recursion of _generate_expression is cut

AllowedOperators == {"+", "-", "*", "/"}

CountdownConfig(min_numbers, max_numbers, min_value, max_value, min_target, max_target, operators, shuffle, seed, size) ==
    [cls |-> "CountdownConfig", min_numbers |-> min_numbers,
     max_numbers |-> max_numbers, min_value |-> min_value,
     max_value |-> max_value, min_target |-> min_target,
     max_target |-> max_target, operators |-> operators, shuffle |-> shuffle,
     seed |-> seed, size |-> size]

CountdownValidate(cfg) ==
    /\ cfg.min_numbers > 1
    /\ cfg.max_numbers >= cfg.min_numbers
    /\ cfg.min_value > 0
    /\ cfg.max_value >= cfg.min_value
    /\ cfg.min_target > 0
    /\ cfg.max_target >= cfg.min_target
    /\ Len(cfg.operators) > 0
    /\ \A i \in 1..Len(cfg.operators) : cfg.operators[i] \in AllowedOperators

\* ProceduralDataset.__init__(config=..., seed=..., size=...), as
\* CountdownDataset.__init__ calls it: the base class validates the config
\* it is given (a failed assertion of validate() leaves it), keeps it and
\* resolves the seed
ProceduralDatasetRejects(cfg) == ~CountdownValidate(cfg)

ProceduralDatasetInitConfig(self, cfg, seed, size, drawn) ==
    [ProceduralDatasetInit(self, seed, size, drawn) EXCEPT !.config = cfg]

\* CountdownDataset.__init__
CountdownInit(cfg, drawn) ==
    ProceduralDatasetInitConfig(
        [cls |-> "CountdownDataset", config |-> None, seed |-> 0, size |-> 0,
         current_idx |-> None],
        cfg, cfg.seed, cfg.size, drawn)

\* Exact rational arithmetic: a value is [n, d] with d > 0.
Rat(n) == [n |-> n, d |-> 1]

\* the running expression combined with the integer k under op
Apply(v, op, k) ==
    CASE op = "+" -> [n |-> v.n + k * v.d, d |-> v.d]
      [] op = "-" -> [n |-> v.n - k * v.d, d |-> v.d]
      [] op = "*" -> [n |-> v.n * k, d |-> v.d]
      [] op = "/" -> [n |-> v.n, d |-> v.d * k]

\* the value of ((numbers[1] ops[1] numbers[2]) ops[2] numbers[3]) ...
RECURSIVE Fold(_, _, _)
Fold(v, ops, rest) ==
    IF ops = <<>> THEN v
    ELSE Fold(Apply(v, Head(ops), Head(rest)), Tail(ops), Tail(rest))

\* expr.subs(subs)
Subs(ops, numbers) == Fold(Rat(numbers[1]), ops, Tail(numbers))

\* int(q): truncation toward zero
Trunc(v) == IF v.n >= 0 THEN v.n \div v.d ELSE -((-v.n) \div v.d)

\* numbers = [rng.randint(min_value, max_value) for _ in range(num_terms)]
RECURSIVE DrawNumbers(_, _, _, _)
DrawNumbers(rng, cfg, numbers, n) ==
    IF n = 0 THEN [val |-> numbers, rng |-> rng]
    ELSE CHOOSE r \in {DrawNumbers(d.rng, cfg, Append(numbers, d.val), n - 1) :
                        d \in {RandInt(rng, cfg.min_value, cfg.max_value)}} : TRUE

NonZero(seq) == SelectSeq(seq, LAMBDA n : n # 0)

\* the loop "for i in range(1, num_terms)" of _generate_expression; i is the
\* 1-based position of the term being added
RECURSIVE BuildLoop(_, _, _, _, _)
BuildLoop(rng, cfg, numbers, ops, i) ==
    IF i > Len(numbers) THEN [rng |-> rng, numbers |-> numbers, ops |-> ops]
    ELSE
    CHOOSE r \in {
        LET op == d.val
        IN  IF op \in {"+", "-", "*"}
            THEN BuildLoop(d.rng, cfg, numbers, Append(ops, op), i + 1)
            ELSE IF numbers[i] # 0
            THEN LET remaining == NonZero(SubSeq(numbers, i, Len(numbers)))
                 IN  IF remaining # <<>>
                     THEN LET c == Choice(d.rng, remaining)
                          IN  BuildLoop(c.rng, cfg, [numbers EXCEPT ![i] = c.val],
                                        Append(ops, "/"), i + 1)
                     ELSE BuildLoop(d.rng, cfg, numbers, Append(ops, "-"), i + 1)
            ELSE BuildLoop(d.rng, cfg, numbers, Append(ops, "+"), i + 1)
        : d \in {Choice(rng, cfg.operators)}} : TRUE

\* str(expr) with every symbol replaced by its number: the text of the
\* left-associated expression, numbers[1] ops[1] numbers[2] ops[2] ...
RECURSIVE ExprStrFrom(_, _, _)
ExprStrFrom(text, ops, rest) ==
    IF ops = <<>> THEN text
    ELSE ExprStrFrom(text \o <<Head(ops), Str(Head(rest))>>, Tail(ops), Tail(rest))

ExprStr(ops, numbers) == ExprStrFrom(<<Str(numbers[1])>>, ops, Tail(numbers))

\* one execution of the body of _generate_expression up to its return
\* statements: the sample fields when the target is within bounds (ok), and
\* the stream as the body leaves it
ExpressionAttempt(cfg, rng) ==
    CHOOSE r \in {
        LET target == Trunc(Subs(built.ops, built.numbers))
        IN  [ok |-> cfg.min_target <= target /\ target <= cfg.max_target,
             rng |-> built.rng,
             expression |-> ExprStr(built.ops, built.numbers),
             numbers |-> built.numbers, target |-> target]
        : built \in UNION {
            UNION {{BuildLoop(drawn.rng, cfg, drawn.val, <<>>, 2)} :
                   drawn \in {DrawNumbers(d0.rng, cfg, <<>>, d0.val)}} :
            d0 \in {RandInt(rng, cfg.min_numbers, cfg.max_numbers)}}} : TRUE

\* the interpreter refuses a call deeper than its recursion limit
RecursionLimitReached(depth) == depth > MaxAttempts

\* return self._generate_expression(rng): the retry runs in a new frame
SameFrame(depth) == depth

Deeper(depth) == depth + 1

\* CountdownDataset._generate_expression; depth counts the recursive calls
RECURSIVE GenerateExpression(_, _, _)
GenerateExpression(cfg, rng, depth) ==
    IF RecursionLimitReached(depth) THEN [exc |-> "RecursionError", rng |-> rng]
    ELSE
    LET a == ExpressionAttempt(cfg, rng)
    IN  IF a.ok
        THEN [exc |-> "none", rng |-> a.rng, expression |-> a.expression,
              numbers |-> a.numbers, target |-> a.target]
        ELSE GenerateExpression(cfg, a.rng, Deeper(depth))

PromptTemplates ==
    <<"Using the numbers {numbers}, create an expression that equals {target}.",
      "Find a way to make {target} using some or all of these numbers: {numbers}.",
      "Calculate {target} using the numbers {numbers}.">>

\* ", ".join(map(str, numbers))
NumbersStr(numbers) == [i \in 1..Len(numbers) |-> Str(numbers[i])]

\* CountdownDataset.__getitem__
CountdownGetItem(self, idx) ==
    LET cfg == self.config
        rng == Random(StreamSeed(self, idx))
    IN  IF cfg.min_numbers > cfg.max_numbers \/ cfg.min_value > cfg.max_value
        THEN Raised("ValueError")
        ELSE
        LET g == GenerateExpression(cfg, rng, 1)
        IN  IF g.exc # "none" THEN Raised(g.exc)
            ELSE
            LET sh == IF cfg.shuffle THEN Shuffle(g.rng, g.numbers)
                      ELSE [val |-> g.numbers, rng |-> g.rng]
                numbers == sh.val
                t == Choice(sh.rng, PromptTemplates)
            IN  Returned(
                  [question |-> <<t.val, NumbersStr(numbers), g.target>>,
                   answer |-> g.expression,
                   metadata |-> [numbers |-> numbers, target |-> g.target,
                                 expression |-> g.expression]])

\* The value, in exact arithmetic, of an expression text as ExprStr writes it.
ParseInt(digits) ==
    LET RECURSIVE Go(_, _)
        Go(acc, ds0) == IF ds0 = <<>> THEN acc
                        ELSE Go(acc * 10 + (CharIndex(Head(ds0)) - 1), Tail(ds0))
    IN  Go(0, digits)

RECURSIVE EvalFrom(_, _)
EvalFrom(v, text) ==
    IF text = <<>> THEN v
    ELSE EvalFrom(Apply(v, text[1], ParseInt(text[2])), SubSeq(text, 3, Len(text)))

EvalText(text) == EvalFrom(Rat(ParseInt(text[1])), Tail(text))

(***************************************************************************)
(* Construction of a dataset by calling its class with keywords.           *)
(***************************************************************************)
NoConfig == [cls |-> "none"]
NoDataset == [cls |-> "none"]

\* the keyword parameters each __init__ accepts besides self
InitParams(cls) ==
    CASE cls = "LetterCountingDataset" -> {"config"}
      [] cls = "ColorCubeRotationDataset" -> {"config"}
      [] cls = "CountdownDataset" -> {"config"}

\* config.validate(), of whichever class the config is
Validate(cfg) ==
    CASE cfg.cls = "LetterCountingConfig" -> LetterCountingValidate(cfg)
      [] cfg.cls = "ColorCubeRotationConfig" -> ColorCubeRotationValidate(cfg)
      [] cfg.cls = "CountdownConfig" -> CountdownValidate(cfg)

\* whether __init__ leaves with the AssertionError of config.validate()
InitRejects(cls, cfg) ==
    CASE cls = "LetterCountingDataset" -> ~LetterCountingValidate(cfg)
      [] cls = "ColorCubeRotationDataset" -> ~ColorCubeRotationValidate(cfg)
      [] cls = "CountdownDataset" -> ProceduralDatasetRejects(cfg)

\* the class called with the keywords kwargs, config=cfg: the object, or the exception
New(cls, kwargs, cfg, drawn) ==
    IF ~(kwargs \subseteq InitParams(cls)) THEN Raised("TypeError")
    ELSE IF InitRejects(cls, cfg) THEN Raised("AssertionError")
    ELSE [exc |-> "none",
          obj |-> CASE cls = "LetterCountingDataset" -> LetterCountingInit(cfg, drawn)
                    [] cls = "ColorCubeRotationDataset" -> ColorCubeRotationInit(cfg, drawn)
                    [] cls = "CountdownDataset" -> CountdownInit(cfg, drawn)]

\* the class written for each config class
DatasetClassOf(cfg) ==
    CASE cfg.cls = "LetterCountingConfig" -> "LetterCountingDataset"
      [] cfg.cls = "ColorCubeRotationConfig" -> "ColorCubeRotationDataset"
      [] cfg.cls = "CountdownConfig" -> "CountdownDataset"

\* dataset[idx]
GetItemOf(self, idx, hs) ==
    CASE self.cls = "LetterCountingDataset" -> LetterCountingGetItem(self, idx, hs)
      [] self.cls = "ColorCubeRotationDataset" -> ColorCubeRotationGetItem(self, idx)
      [] self.cls = "CountdownDataset" -> CountdownGetItem(self, idx)

\* the dataset's virtual size
SizeOf(self) ==
    IF self.cls = "LetterCountingDataset" THEN self.config.size ELSE self.size

(***************************************************************************)
(* factory.py                                                              *)
(***************************************************************************)
Names == {"countdown", "letter_counting"}
DatasetClasses == {"CountdownDataset", "ColorCubeRotationDataset",
                   "LetterCountingDataset"}
ConfigClasses == {"CountdownConfig", "ColorCubeRotationConfig",
                  "LetterCountingConfig", "dict"}

NoEntry == <<>>

\* issubclass(dataset_cls, ProceduralDataset)
IsProceduralDataset(cls) == cls \in {"CountdownDataset", "ColorCubeRotationDataset"}

\* is_dataclass(config_cls)
IsDataclass(cls) ==
    cls \in {"CountdownConfig", "ColorCubeRotationConfig", "LetterCountingConfig"}

\* register_dataset: the exception raised and the registry afterwards
RegisterDatasetOverwrite(reg, name, dataset_cls, config_cls) ==
    IF ~IsProceduralDataset(dataset_cls) THEN [exc |-> "ValueError", reg |-> reg]
    ELSE IF ~IsDataclass(config_cls) THEN [exc |-> "ValueError", reg |-> reg]
    ELSE [exc |-> "none", reg |-> [reg EXCEPT ![name] = <<dataset_cls, config_cls>>]]

RegisterDatasetAnyConfig(reg, name, dataset_cls, config_cls) ==
    IF reg[name] # NoEntry THEN [exc |-> "ValueError", reg |-> reg]
    ELSE IF ~IsProceduralDataset(dataset_cls) THEN [exc |-> "ValueError", reg |-> reg]
    ELSE [exc |-> "none", reg |-> [reg EXCEPT ![name] = <<dataset_cls, config_cls>>]]

RegisterDataset(reg, name, dataset_cls, config_cls) ==
    IF reg[name] # NoEntry THEN [exc |-> "ValueError", reg |-> reg]
    ELSE IF ~IsProceduralDataset(dataset_cls) THEN [exc |-> "ValueError", reg |-> reg]
    ELSE IF ~IsDataclass(config_cls) THEN [exc |-> "ValueError", reg |-> reg]
    ELSE [exc |-> "none", reg |-> [reg EXCEPT ![name] = <<dataset_cls, config_cls>>]]

\* create_dataset: the exception raised, or the new dataset
CreateDataset(reg, name, cfg, seed, size, drawn) ==
    IF reg[name] = NoEntry THEN Raised("ValueError")
    ELSE LET dataset_cls == reg[name][1]
             config_cls == reg[name][2]
         IN  IF cfg.cls # config_cls THEN Raised("ValueError")
             ELSE New(dataset_cls, {"config", "seed", "size"}, cfg, drawn)

(***************************************************************************)
(* The inputs the model draws from.                                        *)
(***************************************************************************)
HashSeeds == {0, 1}
Handles == {1, 2}
SeedArgs == {None} \cup {Some(n) : n \in 0..MaxSeed}
Sizes == 0..MaxSize
IdxRange == (0 - 1)..(MaxSize + 1)

LetterCountingConfigs ==
    {LetterCountingConfig(b[1], b[2], seed, size) :
        b \in {<<1, 2>>, <<2, 2>>, <<2, 1>>}, seed \in SeedArgs, size \in Sizes}

ColorCubeRotationConfigs ==
    {ColorCubeRotationConfig(b[1], b[2], seed, size) :
        b \in {<<1, 2>>, <<2, 1>>}, seed \in SeedArgs, size \in {MaxSize}}

CountdownConfigs ==
    {CountdownConfig(b[1], b[2], b[3], b[4], b[5], b[6], ops, TRUE, seed, size) :
        b \in {<<2, 3, 1, 5, 1, 9>>, <<3, 2, 1, 5, 1, 9>>, <<2, 3, 5, 1, 1, 9>>,
               <<2, 3, 1, 5, 9, 1>>},
        ops \in {<<"+", "-", "*", "/">>, <<"+", "*">>},
        seed \in SeedArgs, size \in {MaxSize}}

Configs == LetterCountingConfigs \cup ColorCubeRotationConfigs \cup CountdownConfigs

\* the seeds Random().randint(0, 2**32) is let to draw when config.seed is None
Draws(cfg) == IF cfg.seed = None THEN 0..MaxSeed ELSE {0}

(***************************************************************************)
(* Operations on one dataset.                                              *)
(***************************************************************************)
Op(op, idx, repeat, exc) == [op |-> op, idx |-> idx, repeat |-> repeat, exc |-> exc]

FactoryIdle ==
    /\ DATASETS = [n \in Names |-> NoEntry]
    /\ firstReg = [n \in Names |-> NoEntry]
    /\ imported = FALSE
    /\ call = [op |-> "none"]

NoPeer == [hashseed |-> 0, ds |-> NoDataset, observed |-> [i \in IdxRange |-> NotAccessed]]

GenIdle == [pc |-> "idle"]
NoCube == [op |-> "none"]

NoIteration ==
    /\ gen = GenIdle
    /\ cube = NoCube
    /\ handles = [h \in Handles |-> "none"]
    /\ emitted = [h \in Handles |-> <<>>]
    /\ yielded = <<>>
    /\ nextCalls = 0
    /\ stops = 0

Init ==
    /\ FactoryIdle
    /\ hashseed \in HashSeeds
    /\ config = NoConfig
    /\ ds = NoDataset
    /\ last = Op("none", 0, FALSE, "none")
    /\ observed = [i \in IdxRange |-> NotAccessed]
    /\ NoIteration
    /\ peer = NoPeer

\* Config(field=value, ...): the dataclass constructor stores the fields
MakeConfig(cfg) ==
    /\ ds = NoDataset
    /\ config' = cfg
    /\ last' = Op("config", 0, FALSE, "none")
    /\ UNCHANGED <<DATASETS, imported, firstReg, call, hashseed, ds, observed,
                   handles, emitted, yielded, nextCalls, stops, peer, gen, cube, gen, cube>>

\* Dataset(config), the class being the one written for the config's class
Construct(drawn) ==
    /\ config # NoConfig
    /\ ds = NoDataset
    /\ drawn \in Draws(config)
    /\ LET r == New(DatasetClassOf(config), {"config"}, config, drawn)
       IN  /\ ds' = IF r.exc = "none" THEN r.obj ELSE ds
           /\ last' = Op("init", 0, FALSE, r.exc)
    /\ UNCHANGED <<DATASETS, imported, firstReg, call, hashseed, config, observed,
                   handles, emitted, yielded, nextCalls, stops, peer, gen, cube, gen, cube>>

\* dataset[idx]
GetItem(idx) ==
    /\ ds # NoDataset
    /\ idx <= SizeOf(ds) + 1
    /\ LET r == GetItemOf(ds, idx, hashseed)
       IN  /\ observed' = [observed EXCEPT ![idx] = r]
           /\ last' = Op("getitem", idx, observed[idx] # NotAccessed, r.exc)
    /\ UNCHANGED <<DATASETS, imported, firstReg, call, hashseed, config, ds,
                   handles, emitted, yielded, nextCalls, stops, peer, gen, cube, gen, cube>>

\* iter(dataset), the caller keeping the result as handle h:
\* LetterCountingDataset.__iter__
Iter(h) ==
    /\ ds.cls = "LetterCountingDataset"
    /\ ds' = [ds EXCEPT !.current_idx = Some(0)]
    /\ handles' = [handles EXCEPT ![h] = "active"]
    /\ emitted' = [emitted EXCEPT ![h] = <<>>]
    /\ yielded' = <<>>
    /\ nextCalls' = 0
    /\ stops' = 0
    /\ last' = Op("iter", 0, FALSE, "none")
    /\ UNCHANGED <<DATASETS, imported, firstReg, call, hashseed, config, observed, peer, gen, cube>>

\* next(h): LetterCountingDataset.__next__ on the object iter returned
NextItem(h) ==
    /\ handles[h] # "none"
    /\ nextCalls < SizeOf(ds) + MaxExtraNext
    /\ Len(emitted[h]) <= MaxSize
    /\ nextCalls' = nextCalls + 1
    /\ LET cur == ds.current_idx[1]
       IN  IF Exhausted(cur, ds.config.size)
           THEN /\ last' = Op("next", cur, FALSE, "StopIteration")
                /\ stops' = stops + 1
                /\ handles' = [handles EXCEPT ![h] = "ended"]
                /\ UNCHANGED <<ds, observed, emitted, yielded>>
           ELSE LET item == GetItemOf(ds, cur, hashseed)
                IN  /\ observed' = [observed EXCEPT ![cur] = item]
                    /\ last' = Op("next", cur, observed[cur] # NotAccessed, item.exc)
                    /\ IF item.exc = "none"
                       THEN /\ ds' = [ds EXCEPT !.current_idx = Some(cur + 1)]
                            /\ emitted' = [emitted EXCEPT ![h] = Append(@, cur)]
                            /\ yielded' = Append(yielded, item.sample)
                       ELSE UNCHANGED <<ds, emitted, yielded>>
                    /\ UNCHANGED <<stops, handles>>
    /\ UNCHANGED <<DATASETS, imported, firstReg, call, hashseed, config, peer, gen, cube>>

Next ==
    \/ \E cfg \in Configs : MakeConfig(cfg)
    \/ \E drawn \in 0..MaxSeed : Construct(drawn)
    \/ \E idx \in IdxRange : GetItem(idx)

Spec == Init /\ [][Next]_vars

(***************************************************************************)
(* Iteration over a letter counting dataset, by two handles.               *)
(***************************************************************************)
IterConfigs ==
    {LetterCountingConfig(1, 2, seed, size) :
        seed \in {Some(n) : n \in 0..MaxSeed}, size \in Sizes}
    \cup {CountdownConfig(2, 3, 1, 5, 1, 9, <<"+", "-", "*", "/">>, TRUE, Some(0), MaxSize)}

IterInit ==
    /\ FactoryIdle
    /\ hashseed \in HashSeeds
    /\ config \in IterConfigs
    /\ ds = New(DatasetClassOf(config), {"config"}, config, 0).obj
    /\ last = Op("init", 0, FALSE, "none")
    /\ observed = [i \in IdxRange |-> NotAccessed]
    /\ NoIteration
    /\ peer = NoPeer

IterNext ==
    \/ \E h \in Handles : Iter(h)
    \/ \E h \in Handles : NextItem(h)

IterSpec == IterInit /\ [][IterNext]_vars

(***************************************************************************)
(* Indexed access in any order, interleaved with one iteration.            *)
(***************************************************************************)
AccessNext ==
    \/ \E idx \in IdxRange : GetItem(idx)
    \/ Iter(1)
    \/ NextItem(1)

AccessSpec == IterInit /\ [][AccessNext]_vars

(***************************************************************************)
(* The registry: register_dataset and create_dataset calls in one process, *)
(* and the load of games/countdown.py, which registers "countdown".        *)
(***************************************************************************)
FactoryConfigs ==
    {CountdownConfig(2, 3, 1, 5, 1, 9, <<"+", "-", "*", "/">>, TRUE, None, MaxSize),
     ColorCubeRotationConfig(1, 2, None, MaxSize),
     LetterCountingConfig(1, 2, None, MaxSize)}

Call(op, name, dataset_cls, cfg_cls, exc, before, made) ==
    [op |-> op, name |-> name, dataset_cls |-> dataset_cls, config_cls |-> cfg_cls,
     exc |-> exc, before |-> before, made |-> made]

\* register_dataset(name, dataset_cls, config_cls)
Register(name, dataset_cls, config_cls) ==
    /\ LET r == RegisterDataset(DATASETS, name, dataset_cls, config_cls)
       IN  /\ DATASETS' = r.reg
           /\ firstReg' = IF r.exc = "none" /\ firstReg[name] = NoEntry
                          THEN [firstReg EXCEPT ![name] = <<dataset_cls, config_cls>>]
                          ELSE firstReg
           /\ call' = Call("register", name, dataset_cls, config_cls, r.exc,
                           DATASETS, NoDataset)
    /\ UNCHANGED <<imported, hashseed, config, ds, last, observed, handles,
                   emitted, yielded, nextCalls, stops, peer, gen, cube>>

\* import reasoning_gym.games.countdown: the module's last statement is
\* register_dataset("countdown", CountdownDataset, CountdownConfig)
ImportCountdown ==
    /\ ~imported
    /\ LET r == RegisterDataset(DATASETS, "countdown", "CountdownDataset",
                                "CountdownConfig")
       IN  /\ DATASETS' = r.reg
           /\ imported' = (r.exc = "none")
           /\ firstReg' = IF r.exc = "none" /\ firstReg["countdown"] = NoEntry
                          THEN [firstReg EXCEPT !["countdown"] =
                                   <<"CountdownDataset", "CountdownConfig">>]
                          ELSE firstReg
           /\ call' = Call("register", "countdown", "CountdownDataset",
                           "CountdownConfig", r.exc, DATASETS, NoDataset)
    /\ UNCHANGED <<hashseed, config, ds, last, observed, handles, emitted,
                   yielded, nextCalls, stops, peer, gen, cube>>

\* create_dataset(name, config, seed, size)
Create(name, cfg, seed, size) ==
    /\ LET r == CreateDataset(DATASETS, name, cfg, seed, size, 0)
       IN  call' = Call("create", name, "none", cfg.cls, r.exc, DATASETS,
                        IF r.exc = "none" THEN r.obj ELSE NoDataset)
    /\ UNCHANGED <<DATASETS, imported, firstReg, hashseed, config, ds, last,
                   observed, handles, emitted, yielded, nextCalls, stops, peer, gen, cube>>

FactoryNext ==
    \/ ImportCountdown
    \/ \E name \in Names, dataset_cls \in DatasetClasses, config_cls \in ConfigClasses :
          Register(name, dataset_cls, config_cls)
    \/ \E name \in Names, cfg \in FactoryConfigs, seed \in SeedArgs, size \in Sizes :
          Create(name, cfg, seed, size)

FactorySpec == Init /\ [][FactoryNext]_vars

(***************************************************************************)
(* Two processes, each constructing a dataset from the same config and     *)
(* base seed and reading samples from it.                                  *)
(***************************************************************************)
SeededConfigs ==
    {cfg \in Configs : cfg.seed # None /\ cfg.size = MaxSize /\ Validate(cfg)}

DeterminismInit ==
    /\ FactoryIdle
    /\ hashseed \in HashSeeds
    /\ config \in SeededConfigs
    /\ ds = New(DatasetClassOf(config), {"config"}, config, 0).obj
    /\ last = Op("init", 0, FALSE, "none")
    /\ observed = [i \in IdxRange |-> NotAccessed]
    /\ NoIteration
    /\ \E hs \in HashSeeds :
          peer = [hashseed |-> hs,
                  ds |-> New(DatasetClassOf(config), {"config"}, config, 0).obj,
                  observed |-> [i \in IdxRange |-> NotAccessed]]

\* dataset[idx] in the second process
PeerGetItem(idx) ==
    /\ idx >= 0
    /\ idx < SizeOf(peer.ds)
    /\ peer' = [peer EXCEPT !.observed[idx] = GetItemOf(peer.ds, idx, peer.hashseed)]
    /\ UNCHANGED <<DATASETS, imported, firstReg, call, hashseed, config, ds, last,
                   observed, handles, emitted, yielded, nextCalls, stops, gen, cube>>

DeterminismNext ==
    \/ \E idx \in IdxRange : GetItem(idx)
    \/ \E idx \in IdxRange : PeerGetItem(idx)

DeterminismSpec == DeterminismInit /\ [][DeterminismNext]_vars

(***************************************************************************)
(* One countdown request dataset[idx], a call of _generate_expression at a *)
(* time.  The calls run one after another in the caller's thread.          *)
(***************************************************************************)
MaxStream == 12     \* streams Random(0) .. Random(MaxStream)

\* valid configs; no expression of the last one reaches its target range
GenConfigs ==
    {CountdownConfig(2, 3, 1, 5, b[1], b[2], ops, TRUE, None, MaxSize) :
        b \in {<<1, 9>>, <<7, 9>>, <<200, 300>>},
        ops \in {<<"+", "-", "*", "/">>, <<"+", "*">>}}

GenInit ==
    /\ FactoryIdle
    /\ hashseed \in HashSeeds
    /\ config = NoConfig
    /\ ds = NoDataset
    /\ last = Op("none", 0, FALSE, "none")
    /\ observed = [i \in IdxRange |-> NotAccessed]
    /\ NoIteration
    /\ peer = NoPeer

\* dataset[idx] enters _generate_expression with the stream Random(seed + idx)
Request(cfg, stream) ==
    /\ gen.pc # "running"
    /\ gen' = [pc |-> "running", cfg |-> cfg, rng |-> Random(stream), depth |-> 1]
    /\ UNCHANGED <<DATASETS, imported, firstReg, call, hashseed, config, ds, last,
                   observed, handles, emitted, yielded, nextCalls, stops, peer, cube>>

\* one call of _generate_expression
Attempt ==
    /\ gen.pc = "running"
    /\ IF RecursionLimitReached(gen.depth)
       THEN gen' = [gen EXCEPT !.pc = "RecursionError"]
       ELSE \E a \in {ExpressionAttempt(gen.cfg, gen.rng)} :
                IF a.ok
                THEN gen' = [gen EXCEPT !.pc = "returned", !.rng = a.rng]
                ELSE gen' = [gen EXCEPT !.rng = a.rng, !.depth = Deeper(gen.depth)]
    /\ UNCHANGED <<DATASETS, imported, firstReg, call, hashseed, config, ds, last,
                   observed, handles, emitted, yielded, nextCalls, stops, peer, cube>>

GenNext ==
    \/ \E cfg \in GenConfigs, stream \in 0..MaxStream : Request(cfg, stream)
    \/ Attempt

GenSpec == GenInit /\ [][GenNext]_vars /\ WF_vars(Attempt)

(***************************************************************************)
(* One Cube object: built by _generate_cube or by the dataclass            *)
(* constructor, then rotated.  cube.ops and cube.past keep the last two    *)
(* operations and the colourings they were applied to.                     *)
(***************************************************************************)
ColorSet == {Colors[i] : i \in 1..Len(Colors)}

\* the colourings with six different colours
Colourings ==
    {c \in [SideSet -> ColorSet] : \A a, b \in SideSet : c[a] = c[b] => a = b}

LastTwo(seq) == IF Len(seq) > 2 THEN SubSeq(seq, Len(seq) - 1, Len(seq)) ELSE seq

CubeInit == GenInit

\* cube = self._generate_cube(rng)
NewGeneratedCube(stream) ==
    /\ cube' = [op |-> "_generate_cube", colors |-> GenerateCube(Random(stream)).val,
                ops |-> <<>>, past |-> <<>>]
    /\ UNCHANGED <<DATASETS, imported, firstReg, call, hashseed, config, ds, last,
                   observed, handles, emitted, yielded, nextCalls, stops, peer, gen>>

\* Cube(colors)
NewCube(colors) ==
    /\ cube.op = "none"
    /\ cube' = [op |-> "Cube", colors |-> colors, ops |-> <<>>, past |-> <<>>]
    /\ UNCHANGED <<DATASETS, imported, firstReg, call, hashseed, config, ds, last,
                   observed, handles, emitted, yielded, nextCalls, stops, peer, gen>>

\* cube.rotate_<from_side>_to_top()
Rotate(from_side) ==
    /\ cube.op # "none"
    /\ cube' = [cube EXCEPT !.colors = RotateToTop(cube.colors, from_side),
                            !.ops = LastTwo(Append(cube.ops, from_side)),
                            !.past = LastTwo(Append(cube.past, cube.colors))]
    /\ UNCHANGED <<DATASETS, imported, firstReg, call, hashseed, config, ds, last,
                   observed, handles, emitted, yielded, nextCalls, stops, peer, gen>>

CubeNext ==
    \/ \E stream \in 0..MaxStream : NewGeneratedCube(stream)
    \/ \E colors \in Colourings : NewCube(colors)
    \/ \E from_side \in SideSet \ {"top"} : Rotate(from_side)

CubeSpec == CubeInit /\ [][CubeNext]_vars

(***************************************************************************)
(* Properties.                                                             *)
(***************************************************************************)
UpTo(n) == [k \in 1..n |-> k - 1]

\* C1: two iterations of one dataset do not interfere: whatever the
\* interleaving of iter() and next(), each handle is given the samples of
\* indices 0, 1, ... in order, at most size of them, and all of them before
\* its end-of-sequence.
C1_IterationsIndependent ==
    \A h \in Handles :
        handles[h] # "none" =>
            /\ emitted[h] = UpTo(Len(emitted[h]))
            /\ Len(emitted[h]) <= ds.config.size
            /\ handles[h] = "ended" => Len(emitted[h]) = ds.config.size

\* C2: len(dataset) is config.size = N; the samples __next__ has returned
\* since __iter__ are dataset[0], dataset[1], ... in order, never more than
\* N; every __next__ call either returned a sample or raised StopIteration,
\* and StopIteration is raised only once all N have been returned.
C2_SizeContract ==
    ds.cls = "LetterCountingDataset" =>
        /\ LetterCountingLen(ds) = ds.config.size
        /\ Len(yielded) <= LetterCountingLen(ds)
        /\ \A k \in 1..Len(yielded) :
              yielded[k] = LetterCountingGetItem(ds, k - 1, hashseed).sample
        /\ ds.current_idx # None => ds.current_idx[1] = Len(yielded)
        /\ nextCalls = Len(yielded) + stops
        /\ stops > 0 => Len(yielded) = LetterCountingLen(ds)

C2_Witness ==
    /\ ds.cls = "LetterCountingDataset"
    /\ Len(yielded) = ds.config.size
    /\ Len(yielded) >= 2
    /\ stops >= 2

\* C3: an access dataset[idx] with idx outside [0, size) returns no sample.
C3_BoundsRejected ==
    \A idx \in IdxRange :
        (ds # NoDataset /\ (idx < 0 \/ idx >= SizeOf(ds))) =>
            observed[idx].exc # "none"

C5_CreateContract ==
    call.op = "create" =>
        LET entry == call.before[call.name]
            accepted == entry # NoEntry /\ call.config_cls = entry[2]
        IN  /\ ~accepted => (call.exc = "ValueError" /\ call.made = NoDataset)
            /\ accepted => (call.exc = "none" /\ call.made # NoDataset)

\* C6: register_dataset fails, leaving the registry as it was, when the name
\* is registered, the dataset class is no ProceduralDataset or the config
\* class is no dataclass; otherwise it adds exactly the one entry.
C6_RegisterAllOrNothing ==
    call.op = "register" =>
        LET bad == \/ call.before[call.name] # NoEntry
                   \/ ~IsProceduralDataset(call.dataset_cls)
                   \/ ~IsDataclass(call.config_cls)
        IN  /\ bad => (call.exc # "none" /\ DATASETS = call.before)
            /\ ~bad =>
                  /\ call.exc = "none"
                  /\ DATASETS[call.name] = <<call.dataset_cls, call.config_cls>>
                  /\ \A n \in Names \ {call.name} : DATASETS[n] = call.before[n]

C6_Witness ==
    /\ call.op = "register"
    /\ call.exc # "none"
    /\ call.before[call.name] = NoEntry
    /\ \E n \in Names : call.before[n] # NoEntry
    /\ DATASETS = call.before

\* C7: two datasets built from the same config and base seed, in any two
\* processes, return the same sample for the same index.
C7_Deterministic ==
    \A idx \in IdxRange :
        (observed[idx].exc = "none" /\ peer.observed[idx].exc = "none") =>
            observed[idx] = peer.observed[idx]

\* C8: once dataset[j] has been read, no later access to any index and no
\* step of an iteration changes what dataset[j] returns.
C8_IndexIndependence ==
    [][\A j \in IdxRange : observed[j] # NotAccessed => observed'[j] = observed[j]]_vars

C8_Witness ==
    /\ last.op = "getitem"
    /\ last.repeat
    /\ ds.current_idx # None
    /\ ds.current_idx[1] > 0
    /\ \E j \in IdxRange : j > last.idx /\ observed[j] # NotAccessed

\* a config's paired bounds are in order
PairedBoundsOk(cfg) ==
    CASE cfg.cls = "LetterCountingConfig" -> cfg.min_words <= cfg.max_words
      [] cfg.cls = "ColorCubeRotationConfig" -> cfg.min_rotations <= cfg.max_rotations
      [] cfg.cls = "CountdownConfig" ->
            /\ cfg.min_numbers <= cfg.max_numbers
            /\ cfg.min_value <= cfg.max_value
            /\ cfg.min_target <= cfg.max_target

C10_ExpressionEqualsTarget ==
    \A idx \in IdxRange :
        (ds.cls = "CountdownDataset" /\ observed[idx].exc = "none") =>
            LET sample == observed[idx].sample
                v == EvalText(sample.answer)
            IN  /\ v.n = sample.metadata.target * v.d
                /\ ds.config.min_target <= sample.metadata.target
                /\ sample.metadata.target <= ds.config.max_target


C12_FrontToTop ==
    (cube.op # "none" /\ cube.ops # <<>> /\ cube.ops[Len(cube.ops)] = "front") =>
        LET old == cube.past[Len(cube.past)]
        IN  /\ cube.colors["top"] = old["front"]
            /\ cube.colors["front"] = old["bottom"]
            /\ cube.colors["bottom"] = old["back"]
            /\ cube.colors["back"] = old["top"]
            /\ cube.colors["left"] = old["left"]
            /\ cube.colors["right"] = old["right"]

\* the claim's example: TOP red, FRONT blue, BOTTOM green, BACK yellow
\* has become TOP blue, FRONT green, BOTTOM yellow, BACK red
C12_Witness ==
    /\ cube.op = "Cube"
    /\ cube.ops = <<"front">>
    /\ cube.past[1]["top"] = "red" /\ cube.past[1]["front"] = "blue"
    /\ cube.past[1]["bottom"] = "green" /\ cube.past[1]["back"] = "yellow"
    /\ cube.past[1]["left"] = "white" /\ cube.past[1]["right"] = "orange"
    /\ cube.colors["top"] = "blue" /\ cube.colors["front"] = "green"
    /\ cube.colors["bottom"] = "yellow" /\ cube.colors["back"] = "red"


\* C16: a cube made by _generate_cube, and that cube after any sequence of
\* the five rotations, has every colour on exactly one side (and so every
\* side has a colour of its own).
C16_ColouringIsBijection ==
    cube.op = "_generate_cube" =>
        /\ DOMAIN cube.colors = SideSet
        /\ \A side \in SideSet : cube.colors[side] \in ColorSet
        /\ \A color \in ColorSet :
              Cardinality({side \in SideSet : cube.colors[side] = color}) = 1

C16_Witness ==
    /\ cube.op = "_generate_cube"
    /\ cube.ops = <<"bottom", "right">>
    /\ cube.colors # cube.past[1]

Undoes(first, second) ==
    cube.ops = <<first, second>> => cube.colors = cube.past[1]

Times4(from_side, colors) ==
    RotateToTop(RotateToTop(RotateToTop(RotateToTop(colors, from_side),
                                        from_side), from_side), from_side)

\* C17: on any cube state, back undoes front and front undoes back, left
\* undoes right and right undoes left, bottom applied twice gives the state
\* back, bottom is the same as front applied twice, and each of front,
\* right, back and left applied four times gives the state back.
C17_RotationGroup ==
    cube.op # "none" =>
        /\ Undoes("front", "back") /\ Undoes("back", "front")
        /\ Undoes("right", "left") /\ Undoes("left", "right")
        /\ Undoes("bottom", "bottom")
        /\ (cube.ops = <<"front", "front">> =>
                cube.colors = rotate_bottom_to_top(cube.past[1]))
        /\ \A from_side \in {"front", "right", "back", "left"} :
                Times4(from_side, cube.colors) = cube.colors

C17_Witness ==
    /\ cube.op # "none"
    /\ cube.ops = <<"right", "left">>
    /\ cube.colors = cube.past[1]
    /\ cube.colors # cube.past[2]
    /\ rotate_right_to_top(cube.colors) # cube.colors


CubeSample(idx) == ds.cls = "ColorCubeRotationDataset" /\ observed[idx].exc = "none"

\* C13: in every cube-rotation sample metadata.rotations has between
\* min_rotations and max_rotations entries, and metadata.num_rotations is
\* the number of its entries.
C13_RotationCount ==
    \A idx \in IdxRange :
        CubeSample(idx) =>
            LET metadata == observed[idx].sample.metadata
            IN  /\ ds.config.min_rotations <= Len(metadata.rotations)
                /\ Len(metadata.rotations) <= ds.config.max_rotations
                /\ metadata.num_rotations = Len(metadata.rotations)

RECURSIVE Replay(_, _)
Replay(colors, rotations) ==
    IF rotations = <<>> THEN colors
    ELSE Replay(RotateToTop(colors, Head(rotations)), Tail(rotations))

\* C14: in every cube-rotation sample metadata.rotations has no "top";
\* the rotations of metadata.rotations applied in order to a cube coloured
\* as metadata.initial_state show the answer on metadata.target_side; and
\* the question tells the same colouring, the same rotations in the same
\* order and the same target side.
C14_MetadataReproducesAnswer ==
    \A idx \in IdxRange :
        CubeSample(idx) =>
            LET sample == observed[idx].sample
                metadata == sample.metadata
                rotations == metadata.rotations
                story == sample.question
            IN  /\ \A i \in 1..Len(rotations) : rotations[i] # "top"
                /\ Replay(metadata.initial_state, rotations)[metadata.target_side]
                      = sample.answer
                /\ Len(story) = 1 + Len(Sides) + Len(rotations) + 1
                /\ \A i \in 1..Len(Sides) :
                      /\ story[1 + i][3] = Sides[i]
                      /\ story[1 + i][2] = metadata.initial_state[Sides[i]]
                /\ \A i \in 1..Len(rotations) :
                      story[1 + Len(Sides) + i][2] = rotations[i]
                /\ story[Len(story)][2] = metadata.target_side

C14_Witness ==
    \E idx \in IdxRange :
        /\ CubeSample(idx)
        /\ Len(observed[idx].sample.metadata.rotations) = 2
        /\ observed[idx].sample.answer
              # observed[idx].sample.metadata.initial_state[
                    observed[idx].sample.metadata.target_side]

LetterSample(idx) == ds.cls = "LetterCountingDataset" /\ observed[idx].exc = "none"

\* the characters of the span's tokens, case-folded
FoldedChars(span) ==
    LET joined == Concat(span) IN [i \in 1..Len(joined) |-> LowerChar(joined[i])]

Occurrences(chars, c) == Cardinality({i \in 1..Len(chars) : chars[i] = c})

\* C15: in every letter-counting sample the span is a run of consecutive
\* corpus tokens with between min_words and max_words tokens, the target
\* letter occurs in the case-folded span, and the answer is the text of the
\* number of case-folded occurrences of the target letter in the span's
\* tokens, which is at least 1.
C15_SpanAndCount ==
    \A idx \in IdxRange :
        LetterSample(idx) =>
            LET sample == observed[idx].sample
                span == sample.metadata.span
                chars == FoldedChars(span)
                n == Occurrences(chars, sample.metadata.target_letter)
            IN  /\ \E start \in 1..Len(ds.words) :
                      /\ start + Len(span) - 1 <= Len(ds.words)
                      /\ span = SubSeq(ds.words, start, start + Len(span) - 1)
                /\ sample.metadata.span_length = Len(span)
                /\ ds.config.min_words <= Len(span)
                /\ Len(span) <= ds.config.max_words
                /\ \E i \in 1..Len(chars) : chars[i] = sample.metadata.target_letter
                /\ sample.answer = Str(n)
                /\ chars # <<>> => n >= 1

C15_Witness ==
    \E idx \in IdxRange :
        /\ LetterSample(idx)
        /\ Len(observed[idx].sample.metadata.span) = 2
        /\ observed[idx].sample.metadata.target_letter \in {"i", "t", "y"}
        /\ observed[idx].sample.answer = <<"1">>

====
